---------------------------- MODULE Spec2Model ----------------------------
(***************************************************************************)
(* The sequential chunk-simplification pipeline of the compliance document *)
(* simplifier: app/services/llm_service.py (LLMService and                 *)
(* simplify_content_service) together with the prompt template of          *)
(* app/services/prompts.py that the Simplification Step formats.           *)
(*                                                                         *)
(* A Python str is a sequence of one-character strings.  The content of a  *)
(* model response is a tagged value, because the AIMessage.content that    *)
(* lcel_for_simplification returns unchecked is either a str or a list of  *)
(* content blocks.                                                         *)
(***************************************************************************)
EXTENDS Naturals, Integers, Sequences, FiniteSets, TLC

(***************************************************************************)
(* Bounds of the model.                                                    *)
(***************************************************************************)
\* the longest page_content of an input Document
MaxDocLen == 1
\* the largest number of Documents handed to simplify_content_service
MaxDocs == 3

\* the largest number of files or URLs of the request of SpecRequest
MaxFiles == 2
\* the largest number of files or URLs of each request of SpecStorage
MaxSharedFiles == 1

\* the largest number of chunks of the chunk list of SpecChunks
MaxChunks == 3

\* the largest chunk_size of a splitter of SpecSplit
MaxChunkSize == 3
\* the longest page_content of a single Document of SpecSplit
MaxSplitLen == 5
\* the longest page_content of each of two Documents of SpecSplit
MaxSplitDocLen == 2

\* RecursiveCharacterTextSplitter(chunk_size=5000, chunk_overlap=500) of
\* LLMService.__init__, scaled down to the size of the documents of the model
configured_chunk_size == 2
configured_chunk_overlap == 1

\* ChatAnthropic(max_retries=3)
max_retries == 3

\* the _chunk_size and _chunk_overlap of the text splitter in use
VARIABLE splitter

chunk_size == splitter.chunk_size
chunk_overlap == splitter.chunk_overlap

\* the splitter LLMService.__init__ builds
ConfiguredSplitter ==
    [chunk_size |-> configured_chunk_size,
     chunk_overlap |-> configured_chunk_overlap]

NL == "\n"
\* the characters of a document: a letter and a blank
Char == {"a", " "}
Whitespace == {" ", NL}

(***************************************************************************)
(* Strings.                                                                *)
(***************************************************************************)
RECURSIVE LStrip(_)
LStrip(s) ==
    IF s # <<>> /\ Head(s) \in Whitespace THEN LStrip(Tail(s)) ELSE s

RECURSIVE RStrip(_)
RStrip(s) ==
    IF s # <<>> /\ s[Len(s)] \in Whitespace
    THEN RStrip(SubSeq(s, 1, Len(s) - 1))
    ELSE s

\* str.strip()
Strip(s) == RStrip(LStrip(s))

\* "".join(parts)
RECURSIVE Concat(_)
Concat(parts) ==
    IF parts = <<>> THEN <<>> ELSE Head(parts) \o Concat(Tail(parts))

\* "\n".join(parts)
RECURSIVE JoinNL(_)
JoinNL(parts) ==
    IF parts = <<>> THEN <<>>
    ELSE IF Len(parts) = 1 THEN parts[1]
    ELSE parts[1] \o <<NL>> \o JoinNL(Tail(parts))

\* all strings over Char of length at most n
StringsUpTo(n) == UNION {[1..k -> Char] : k \in 0..n}

(***************************************************************************)
(* The text splitter (RecursiveCharacterTextSplitter with its default      *)
(* separators, keep_separator=True and strip_whitespace=True).             *)
(***************************************************************************)
Separators == << <<NL, NL>>, <<NL>>, <<" ">>, <<>> >>

\* the index of the first occurrence of sep in text, 0 when there is none
FirstOcc(text, sep) ==
    LET hits == {i \in 1..(Len(text) + 1 - Len(sep)) :
                    SubSeq(text, i, i + Len(sep) - 1) = sep}
    IN IF Len(sep) > Len(text) \/ hits = {} THEN 0
       ELSE CHOOSE i \in hits : \A j \in hits : i <= j

\* re.split(sep, text): the pieces between the occurrences of sep
RECURSIVE Pieces(_, _)
Pieces(text, sep) ==
    LET i == FirstOcc(text, sep)
    IN IF i = 0 THEN <<text>>
       ELSE <<SubSeq(text, 1, i - 1)>>
            \o Pieces(SubSeq(text, i + Len(sep), Len(text)), sep)

\* _split_text_with_regex(text, sep, keep_separator=True): every piece but the
\* first keeps the separator in front of it; empty pieces are dropped
SplitWithRegex(text, sep) ==
    LET p == Pieces(text, sep)
        kept == IF sep = <<>>
                THEN [i \in 1..Len(text) |-> <<text[i]>>]
                ELSE [i \in 1..Len(p) |-> IF i = 1 THEN p[1] ELSE sep \o p[i]]
    IN SelectSeq(kept, LAMBDA s : s # <<>>)

\* _join_docs with separator "": the stripped text, no chunk when it is empty
JoinDocs(current_doc) ==
    LET text == Strip(Concat(current_doc))
    IN IF text = <<>> THEN <<>> ELSE <<text>>

\* the total length of the splits of current_doc
RECURSIVE TotalLen(_)
TotalLen(current_doc) ==
    IF current_doc = <<>> THEN 0
    ELSE Len(Head(current_doc)) + TotalLen(Tail(current_doc))

\* a variant of PopFront that stops as soon as the kept splits are within the
\* overlap, whether or not the next split still fits
RECURSIVE PopFrontToOverlap(_, _)
PopFrontToOverlap(current_doc, len) ==
    IF TotalLen(current_doc) > chunk_overlap
    THEN PopFrontToOverlap(Tail(current_doc), len)
    ELSE current_doc

\* the while loop of _merge_splits that drops leading splits until the overlap
\* and the next split fit
RECURSIVE PopFront(_, _)
PopFront(current_doc, len) ==
    LET total == TotalLen(current_doc)
    IN IF total > chunk_overlap \/ (total + len > chunk_size /\ total > 0)
       THEN PopFront(Tail(current_doc), len)
       ELSE current_doc

\* _merge_splits(splits, ""): greedy windows of at most chunk_size characters
RECURSIVE MergeSplits(_, _, _)
MergeSplits(splits, current_doc, docs) ==
    IF splits = <<>> THEN docs \o JoinDocs(current_doc)
    ELSE LET d == Head(splits)
             full == TotalLen(current_doc) + Len(d) > chunk_size
                     /\ current_doc # <<>>
         IN IF full
            THEN MergeSplits(Tail(splits),
                             Append(PopFront(current_doc, Len(d)), d),
                             docs \o JoinDocs(current_doc))
            ELSE MergeSplits(Tail(splits), Append(current_doc, d), docs)

\* the separator _split_text picks: the first one that is "" or occurs in text
RECURSIVE PickSeparator(_, _, _)
PickSeparator(text, separators, i) ==
    IF i >= Len(separators) THEN Len(separators)
    ELSE IF separators[i] = <<>> \/ FirstOcc(text, separators[i]) # 0 THEN i
    ELSE PickSeparator(text, separators, i + 1)

RECURSIVE SplitText(_, _)
RECURSIVE SplitLoop(_, _, _, _)

\* the for loop of _split_text over the splits
SplitLoop(splits, good_splits, final_chunks, new_separators) ==
    IF splits = <<>>
    THEN IF good_splits = <<>> THEN final_chunks
         ELSE final_chunks \o MergeSplits(good_splits, <<>>, <<>>)
    ELSE LET s == Head(splits)
         IN IF Len(s) < chunk_size
            THEN SplitLoop(Tail(splits), Append(good_splits, s),
                           final_chunks, new_separators)
            ELSE LET merged == IF good_splits = <<>> THEN <<>>
                               ELSE MergeSplits(good_splits, <<>>, <<>>)
                     inner == IF new_separators = <<>> THEN <<s>>
                              ELSE SplitText(s, new_separators)
                 IN SplitLoop(Tail(splits), <<>>,
                              final_chunks \o merged \o inner, new_separators)

\* RecursiveCharacterTextSplitter._split_text
SplitText(text, separators) ==
    LET i == PickSeparator(text, separators, 1)
        separator == separators[i]
        new_separators == IF separator = <<>> THEN <<>>
                          ELSE SubSeq(separators, i + 1, Len(separators))
    IN SplitLoop(SplitWithRegex(text, separator), <<>>, <<>>, new_separators)

\* text_splitter.split_documents(content): every Document is split on its own
\* and the chunks keep the order of the Documents
RECURSIVE split_documents(_)
split_documents(docs) ==
    IF docs = <<>> THEN <<>>
    ELSE SplitText(Head(docs), Separators) \o split_documents(Tail(docs))


(***************************************************************************)
(* Values of a model response's content and of previous_simplified.        *)
(***************************************************************************)
\* a Python str
Str(s) == [type |-> "str", text |-> s]
\* a content that is a list of content blocks, not a str
ListContent == [type |-> "list", text |-> <<>>]

\* what response.content of the model client can be: an empty str, two
\* different texts, a blank str, or a list
ModelContents ==
    {Str(<<>>), Str(<<"x">>), Str(<<"y">>), Str(<<" ">>), ListContent}

\* the Document lists a request can hand to simplify_content_service
Contents == UNION {[1..n -> StringsUpTo(MaxDocLen)] : n \in 0..MaxDocs}

(***************************************************************************)
(* State of one run of simplify_content_service.                           *)
(***************************************************************************)
VARIABLES
    content,              \* the List[Document] argument (page_content of each)
    pc,                   \* the position of the run in the code
    chunks,               \* chunks of LLMService.simplify_content
    idx,                  \* the 1-based position of the for loop over chunks
    responses,            \* responses of LLMService.simplify_content
    previous_simplified,  \* previous_simplified of LLMService.simplify_content
    result,               \* what simplify_content_service returned
    error,                \* the exception simplify_content_service raised
    calls,                \* history: the calls of lcel_for_simplification
    outcomes,             \* history: how each of those calls ended
    in_flight,            \* the chunk positions whose model call is awaited
    invoked,              \* history: the requests the model client received
    client,               \* whether LLMService.__init__ built the model client
    retries,              \* the retries the client made for the awaited call
    cancelled             \* whether the caller's request was cancelled

\* the requests to the /upload and /links endpoints
Requests == {1, 2}

VARIABLES
    request,              \* per request: the endpoint, its form fields
    rpc,                  \* per request: the position of its endpoint handler
    saved,                \* per request: the files save_uploaded_files handled
    storage,              \* the directories under base_temp_dir and their files
    documents,            \* per request: result_data["documents"]
    http,                 \* per request: the status of the response, 0 if none
    validation,           \* history: the request raised a ValueError
    clobbered             \* history: who replaced or removed whose stored file

\* the variables the steps of simplify_content_service never change
outer_vars == <<splitter, request, rpc, saved, storage, documents, http,
                validation, clobbered>>

vars == <<content, pc, chunks, idx, responses, previous_simplified, result,
          error, calls, outcomes, in_flight, invoked, client, retries,
          cancelled, outer_vars>>

NoResult == [simplified_content |-> "none"]
NoError == "none"

\* an empty directory, and base_temp_dir without any directory
EmptyDir == <<>>
NoRequest == [endpoint |-> "none", given |-> FALSE, items |-> <<>>, uuid |-> ""]

\* no request is being handled: simplify_content_service is called directly
NoRequests ==
    /\ request = [r \in Requests |-> NoRequest]
    /\ rpc = [r \in Requests |-> "idle"]
    /\ saved = [r \in Requests |-> 0]
    /\ storage = EmptyDir
    /\ documents = [r \in Requests |-> <<>>]
    /\ http = [r \in Requests |-> 0]
    /\ validation = [r \in Requests |-> FALSE]
    /\ clobbered = {}

Init ==
    /\ content \in Contents
    /\ pc = "service"
    /\ chunks = <<>>
    /\ idx = 0
    /\ responses = <<>>
    /\ previous_simplified = Str(<<>>)
    /\ result = NoResult
    /\ error = NoError
    /\ calls = <<>>
    /\ outcomes = <<>>
    /\ in_flight = {}
    /\ invoked = <<>>
    /\ client = "none"
    /\ retries = 0
    /\ cancelled = FALSE
    /\ splitter = ConfiguredSplitter
    /\ NoRequests

(***************************************************************************)
(* ComplianceStringTemplate.format: which request the prompt builds, or    *)
(* that it raises.                                                         *)
(***************************************************************************)
\* .strip() of a value that is not a str raises AttributeError, and an empty
\* current chunk raises ValueError; both leave format as RuntimeError
FormatRaises(previous, current) ==
    \/ previous.type # "str"
    \/ current.type # "str"
    \/ Strip(current.text) = <<>>

\* a variant of Format that tests previous_simplified before stripping it
FormatTestsUnstripped(previous, current) ==
    IF previous.text = <<>>
    THEN [template |-> "direct",
          previous_simplified |-> <<>>,
          current_chunk |-> Strip(current.text)]
    ELSE [template |-> "continuation",
          previous_simplified |-> Strip(previous.text),
          current_chunk |-> Strip(current.text)]

\* the direct template holds {current_chunk} only; SIMPLIFICATION_TEMPLATE
\* holds {previous_simplified} and {current_chunk}; both are filled with the
\* stripped values
Format(previous, current) ==
    IF Strip(previous.text) = <<>>
    THEN [template |-> "direct",
          previous_simplified |-> <<>>,
          current_chunk |-> Strip(current.text)]
    ELSE [template |-> "continuation",
          previous_simplified |-> Strip(previous.text),
          current_chunk |-> Strip(current.text)]

(***************************************************************************)
(* The steps of simplify_content_service.                                  *)
(***************************************************************************)
\* LLMService(model=model): ChatAnthropic, the splitter and the prompt are
\* constructed
InitLLMService ==
    /\ pc = "service"
    /\ client' = "built"
    /\ pc' = "split"
    /\ UNCHANGED <<content, chunks, idx, responses, previous_simplified,
                   result, error, calls, outcomes, in_flight, invoked>>
    /\ UNCHANGED <<retries, cancelled, outer_vars>>

\* a variant of InitLLMServiceFails that logs the error and carries on
InitLLMServiceFailsSwallowed ==
    /\ pc = "service"
    /\ client' = "failed"
    /\ pc' = "split"
    /\ UNCHANGED <<content, chunks, idx, responses, previous_simplified,
                   result, error, calls, outcomes, in_flight, invoked>>
    /\ UNCHANGED <<retries, cancelled, outer_vars>>

\* LLMService.__init__ raises RuntimeError, which simplify_content_service
\* wraps in a RuntimeError of its own
InitLLMServiceFails ==
    /\ pc = "service"
    /\ client' = "failed"
    /\ pc' = "raised"
    /\ error' = "RuntimeError"
    /\ UNCHANGED <<content, chunks, idx, responses, previous_simplified,
                   result, calls, outcomes, in_flight, invoked>>
    /\ UNCHANGED <<retries, cancelled, outer_vars>>

\* a variant of SplitContent that raises for an empty Document list
SplitContentRejectsEmpty ==
    /\ pc = "split"
    /\ IF content = <<>>
       THEN /\ pc' = "raised"
            /\ error' = "RuntimeError"
            /\ UNCHANGED <<chunks, responses, previous_simplified, idx>>
       ELSE /\ chunks' = split_documents(content)
            /\ responses' = <<>>
            /\ previous_simplified' = Str(<<>>)
            /\ idx' = 1
            /\ pc' = "loop"
            /\ UNCHANGED error
    /\ UNCHANGED <<content, result, calls, outcomes, in_flight,
                   invoked, client>>
    /\ UNCHANGED <<retries, cancelled, outer_vars>>

\* simplify_content up to the for loop: split, responses = [],
\* previous_simplified = ""
SplitContent ==
    /\ pc = "split"
    /\ chunks' = split_documents(content)
    /\ responses' = <<>>
    /\ previous_simplified' = Str(<<>>)
    /\ idx' = 1
    /\ pc' = "loop"
    /\ UNCHANGED <<content, result, error, calls, outcomes, in_flight,
                   invoked, client>>
    /\ UNCHANGED <<retries, cancelled, outer_vars>>

\* a variant of Dispatch that sends every remaining chunk at once, as a
\* gather over the chunks would
DispatchAll ==
    /\ pc = "loop"
    /\ idx <= Len(chunks)
    /\ ~FormatRaises(previous_simplified, Str(chunks[idx]))
    /\ calls' = Append(calls, [ordinal |-> idx,
                               previous_simplified |-> previous_simplified,
                               current_chunk |-> chunks[idx]])
    /\ invoked' = Append(invoked, Format(previous_simplified, Str(chunks[idx])))
    /\ in_flight' = in_flight \cup (idx..Len(chunks))
    /\ pc' = "await"
    /\ UNCHANGED <<content, chunks, idx, responses, previous_simplified,
                   result, error, outcomes, client>>
    /\ UNCHANGED <<retries, cancelled, outer_vars>>

\* the next iteration calls lcel_for_simplification(previous_simplified,
\* chunk_text); the prompt is formatted and the request goes to the client
Dispatch ==
    /\ pc = "loop"
    /\ idx <= Len(chunks)
    /\ ~FormatRaises(previous_simplified, Str(chunks[idx]))
    /\ calls' = Append(calls, [ordinal |-> idx,
                               previous_simplified |-> previous_simplified,
                               current_chunk |-> chunks[idx]])
    /\ invoked' = Append(invoked, Format(previous_simplified, Str(chunks[idx])))
    /\ in_flight' = in_flight \cup {idx}
    /\ pc' = "await"
    /\ UNCHANGED <<content, chunks, idx, responses, previous_simplified,
                   result, error, outcomes, client>>
    /\ UNCHANGED <<retries, cancelled, outer_vars>>

\* a variant of DispatchFormatFails in which the error of the prompt leaves
\* the loop and ends the run
DispatchFormatFailsAborts ==
    /\ pc = "loop"
    /\ idx <= Len(chunks)
    /\ FormatRaises(previous_simplified, Str(chunks[idx]))
    /\ calls' = Append(calls, [ordinal |-> idx,
                               previous_simplified |-> previous_simplified,
                               current_chunk |-> chunks[idx]])
    /\ pc' = "raised"
    /\ error' = "RuntimeError"
    /\ UNCHANGED <<content, chunks, idx, responses, previous_simplified,
                   result, outcomes, in_flight, invoked, client>>
    /\ UNCHANGED <<retries, cancelled, outer_vars>>

\* the next iteration calls lcel_for_simplification and the prompt raises:
\* the chunk is logged and skipped without a request to the client
DispatchFormatFails ==
    /\ pc = "loop"
    /\ idx <= Len(chunks)
    /\ FormatRaises(previous_simplified, Str(chunks[idx]))
    /\ calls' = Append(calls, [ordinal |-> idx,
                               previous_simplified |-> previous_simplified,
                               current_chunk |-> chunks[idx]])
    /\ outcomes' = Append(outcomes, [ordinal |-> idx, ok |-> FALSE,
                                     output |-> Str(<<>>)])
    /\ idx' = idx + 1
    /\ UNCHANGED <<content, pc, chunks, responses, previous_simplified,
                   result, error, in_flight, invoked, client>>
    /\ UNCHANGED <<retries, cancelled, outer_vars>>

\* a variant of ModelReturns that keeps a running concatenation of the outputs
\* in previous_simplified
ModelReturnsConcatenates ==
    /\ pc = "await"
    /\ \E c \in ModelContents :
        /\ responses' = Append(responses, c)
        /\ previous_simplified' =
               [type |-> c.type, text |-> previous_simplified.text \o c.text]
        /\ outcomes' = Append(outcomes, [ordinal |-> idx, ok |-> TRUE,
                                         output |-> c])
    /\ in_flight' = in_flight \ {idx}
    /\ idx' = idx + 1
    /\ pc' = "loop"
    /\ UNCHANGED <<content, chunks, result, error, calls, invoked, client>>
    /\ retries' = 0
    /\ UNCHANGED <<cancelled, outer_vars>>

\* a variant of ModelReturns that puts the newest response first
ModelReturnsPrepends ==
    /\ pc = "await"
    /\ \E c \in ModelContents :
        /\ responses' = <<c>> \o responses
        /\ previous_simplified' = c
        /\ outcomes' = Append(outcomes, [ordinal |-> idx, ok |-> TRUE,
                                         output |-> c])
    /\ in_flight' = in_flight \ {idx}
    /\ idx' = idx + 1
    /\ pc' = "loop"
    /\ UNCHANGED <<content, chunks, result, error, calls, invoked, client>>
    /\ retries' = 0
    /\ UNCHANGED <<cancelled, outer_vars>>

\* the awaited model call returns: response.content is appended and becomes
\* previous_simplified
ModelReturns ==
    /\ pc = "await"
    /\ \E c \in ModelContents :
        /\ responses' = Append(responses, c)
        /\ previous_simplified' = c
        /\ outcomes' = Append(outcomes, [ordinal |-> idx, ok |-> TRUE,
                                         output |-> c])
    /\ in_flight' = in_flight \ {idx}
    /\ idx' = idx + 1
    /\ pc' = "loop"
    /\ UNCHANGED <<content, chunks, result, error, calls, invoked, client>>
    /\ retries' = 0
    /\ UNCHANGED <<cancelled, outer_vars>>

\* the model client retries the awaited request after a transient error, at
\* most max_retries times; the pipeline does not see it
ClientRetries ==
    /\ pc = "await"
    /\ retries < max_retries
    /\ retries' = retries + 1
    /\ UNCHANGED <<content, pc, chunks, idx, responses, previous_simplified,
                   result, error, calls, outcomes, in_flight, invoked,
                   client, cancelled, outer_vars>>

\* a variant of CancelRequest in which the cancellation is caught by the
\* loop's except clause like a failure of the chunk
CancelRequestSwallowed ==
    /\ pc = "await"
    /\ cancelled' = TRUE
    /\ outcomes' = Append(outcomes, [ordinal |-> idx, ok |-> FALSE,
                                     output |-> Str(<<>>)])
    /\ in_flight' = in_flight \ {idx}
    /\ idx' = idx + 1
    /\ pc' = "loop"
    /\ retries' = 0
    /\ UNCHANGED <<content, chunks, responses, previous_simplified, result,
                   error, calls, invoked, client, outer_vars>>

\* the caller's request is cancelled while the model call is awaited:
\* CancelledError is no Exception, so no except clause of
\* lcel_for_simplification, simplify_content or simplify_content_service
\* catches it; the awaited call is cancelled and the run ends without a result
CancelRequest ==
    /\ pc = "await"
    /\ cancelled' = TRUE
    /\ in_flight' = in_flight \ {idx}
    /\ error' = "CancelledError"
    /\ pc' = "cancelled"
    /\ retries' = 0
    /\ UNCHANGED <<content, chunks, idx, responses, previous_simplified,
                   result, calls, outcomes, invoked, client, outer_vars>>

\* a variant of ModelRaises that sends the failed chunk to the model again
ModelRaisesRedispatches ==
    /\ pc = "await"
    /\ outcomes' = Append(outcomes, [ordinal |-> idx, ok |-> FALSE,
                                     output |-> Str(<<>>)])
    /\ in_flight' = in_flight \ {idx}
    /\ pc' = "loop"
    /\ retries' = 0
    /\ UNCHANGED <<content, chunks, idx, responses, previous_simplified,
                   result, error, calls, invoked, client, cancelled,
                   outer_vars>>

\* a variant of ModelRaises that records an empty output for the failed chunk
ModelRaisesRecordsEmpty ==
    /\ pc = "await"
    /\ outcomes' = Append(outcomes, [ordinal |-> idx, ok |-> FALSE,
                                     output |-> Str(<<>>)])
    /\ responses' = Append(responses, Str(<<>>))
    /\ previous_simplified' = Str(<<>>)
    /\ in_flight' = in_flight \ {idx}
    /\ idx' = idx + 1
    /\ pc' = "loop"
    /\ UNCHANGED <<content, chunks, result, error, calls, invoked, client>>
    /\ retries' = 0
    /\ UNCHANGED <<cancelled, outer_vars>>

\* the awaited model call raises (a provider error or a timeout, after the
\* client's own retries): the chunk is logged and skipped
ModelRaises ==
    /\ pc = "await"
    /\ outcomes' = Append(outcomes, [ordinal |-> idx, ok |-> FALSE,
                                     output |-> Str(<<>>)])
    /\ in_flight' = in_flight \ {idx}
    /\ idx' = idx + 1
    /\ pc' = "loop"
    /\ UNCHANGED <<content, chunks, responses, previous_simplified, result,
                   error, calls, invoked, client>>
    /\ retries' = 0
    /\ UNCHANGED <<cancelled, outer_vars>>

\* every element of responses is a str
AllStr(rs) == \A i \in 1..Len(rs) : rs[i].type = "str"

\* the texts of a sequence of str values
Texts(rs) == [i \in 1..Len(rs) |-> rs[i].text]

\* a variant of ReturnJoined that treats an empty responses list as an error
ReturnJoinedRejectsEmpty ==
    /\ pc = "loop"
    /\ idx > Len(chunks)
    /\ AllStr(responses)
    /\ IF responses = <<>>
       THEN /\ error' = "RuntimeError"
            /\ pc' = "raised"
            /\ UNCHANGED result
       ELSE /\ result' = [simplified_content |-> JoinNL(Texts(responses))]
            /\ pc' = "returned"
            /\ UNCHANGED error
    /\ UNCHANGED <<content, chunks, idx, responses, previous_simplified,
                   calls, outcomes, in_flight, invoked, client>>
    /\ UNCHANGED <<retries, cancelled, outer_vars>>

\* after the loop: "\n".join(responses) is returned in simplified_content
ReturnJoined ==
    /\ pc = "loop"
    /\ idx > Len(chunks)
    /\ AllStr(responses)
    /\ result' = [simplified_content |-> JoinNL(Texts(responses))]
    /\ pc' = "returned"
    /\ UNCHANGED <<content, chunks, idx, responses, previous_simplified,
                   error, calls, outcomes, in_flight, invoked, client>>
    /\ UNCHANGED <<retries, cancelled, outer_vars>>

\* after the loop: "\n".join(responses) raises TypeError on an element that is
\* not a str, which leaves the service as RuntimeError
JoinRaises ==
    /\ pc = "loop"
    /\ idx > Len(chunks)
    /\ ~AllStr(responses)
    /\ error' = "RuntimeError"
    /\ pc' = "raised"
    /\ UNCHANGED <<content, chunks, idx, responses, previous_simplified,
                   result, calls, outcomes, in_flight, invoked, client>>
    /\ UNCHANGED <<retries, cancelled, outer_vars>>

Next ==
    \/ InitLLMService
    \/ InitLLMServiceFails
    \/ SplitContent
    \/ Dispatch
    \/ DispatchFormatFails
    \/ ModelReturns
    \/ ModelRaises
    \/ ClientRetries
    \/ CancelRequest
    \/ ReturnJoined
    \/ JoinRaises

Spec == Init /\ [][Next]_vars

(***************************************************************************)
(* The splitter on its own: simplify_content's split of a Document list    *)
(* under every valid (chunk_size, chunk_overlap).                          *)
(***************************************************************************)
\* the characters of a document to split: two letters, a blank, a newline
SplitChar == {"a", "b", " ", NL}

\* all strings over SplitChar of length at most n
SplitStringsUpTo(n) == UNION {[1..k -> SplitChar] : k \in 0..n}

\* the valid splitters: TextSplitter.__init__ rejects chunk_size <= 0 and
\* chunk_overlap > chunk_size; the pairs considered have overlap < size
ValidSplitters ==
    {sp \in [chunk_size : 1..MaxChunkSize,
             chunk_overlap : 0..(MaxChunkSize - 1)] :
        sp.chunk_overlap < sp.chunk_size}

\* the letters of a document to split
SplitLetters == {"a", "b"}

\* the Document lists to split: one Document, two shorter ones, or a
\* Document of letters longer than every chunk_size followed by a short one
SplitContents ==
    {<<d>> : d \in SplitStringsUpTo(MaxSplitLen)}
    \cup {<<d1, d2>> : d1 \in SplitStringsUpTo(MaxSplitDocLen),
                       d2 \in SplitStringsUpTo(MaxSplitDocLen)}
    \cup {<<d1, d2>> : d1 \in [1..(MaxChunkSize + 1) -> SplitLetters],
                       d2 \in [1..1 -> SplitLetters]}

\* a run that has built its LLMService and is about to split its content
InitSplit ==
    /\ content \in SplitContents
    /\ splitter \in ValidSplitters
    /\ pc = "split"
    /\ chunks = <<>>
    /\ idx = 0
    /\ responses = <<>>
    /\ previous_simplified = Str(<<>>)
    /\ result = NoResult
    /\ error = NoError
    /\ calls = <<>>
    /\ outcomes = <<>>
    /\ in_flight = {}
    /\ invoked = <<>>
    /\ client = "built"
    /\ retries = 0
    /\ cancelled = FALSE
    /\ NoRequests

\* a variant of SplitAgain for a splitter that keeps the end of its
\* previous call as the overlap of the next one
SplitAgainKeepsTail ==
    /\ pc = "loop"
    /\ chunks' = IF chunks = <<>> THEN split_documents(content)
                 ELSE <<chunks[Len(chunks)]>> \o split_documents(content)
    /\ pc' = "resplit"
    /\ UNCHANGED <<content, idx, responses, previous_simplified, result,
                   error, calls, outcomes, in_flight, invoked, client>>
    /\ UNCHANGED <<retries, cancelled, outer_vars>>

\* text_splitter.split_documents(content) is invoked a second time with the
\* same Documents and the same splitter
SplitAgain ==
    /\ pc = "loop"
    /\ chunks' = split_documents(content)
    /\ pc' = "resplit"
    /\ UNCHANGED <<content, idx, responses, previous_simplified, result,
                   error, calls, outcomes, in_flight, invoked, client>>
    /\ UNCHANGED <<retries, cancelled, outer_vars>>

NextSplit ==
    \/ SplitContent
    \/ SplitAgain

SpecSplit == InitSplit /\ [][NextSplit]_vars

(***************************************************************************)
(* The for loop of simplify_content on its own, over any chunk list.       *)
(***************************************************************************)
\* the page_content of a chunk: a text, a blank, nothing
ChunkTexts == {<<"a">>, <<" ">>, <<>>}

\* a run that is about to enter its for loop over some chunk list
InitChunks ==
    /\ chunks \in UNION {[1..n -> ChunkTexts] : n \in 0..MaxChunks}
    /\ content = <<>>
    /\ pc = "loop"
    /\ idx = 1
    /\ responses = <<>>
    /\ previous_simplified = Str(<<>>)
    /\ result = NoResult
    /\ error = NoError
    /\ calls = <<>>
    /\ outcomes = <<>>
    /\ in_flight = {}
    /\ invoked = <<>>
    /\ client = "built"
    /\ retries = 0
    /\ cancelled = FALSE
    /\ splitter = ConfiguredSplitter
    /\ NoRequests

NextChunks ==
    \/ Dispatch
    \/ DispatchFormatFails
    \/ ModelReturns
    \/ ModelRaises
    \/ ClientRetries
    \/ CancelRequest
    \/ ReturnJoined
    \/ JoinRaises

SpecChunks == InitChunks /\ [][NextChunks]_vars

(***************************************************************************)
(* The endpoints /upload and /links: app/api/v1/simplifier_endpoint.py,    *)
(* the loader simplify_content of app/services/simplifier.py and the temp  *)
(* directories of file_handler.py and link_handler.py.                     *)
(***************************************************************************)
\* the filenames of uploaded files, as the client sent them: "f", "g", "d/f"
FileNames == {<<"f">>, <<"g">>, <<"d", "/", "f">>}
\* the filename of a form part without a file name
NoFileName == <<>>
\* the URLs found in the links text
Urls == {"p", "q"}

\* os.path.basename(filename): what follows the last "/"
RECURSIVE Basename(_)
Basename(filename) ==
    IF \E i \in 1..Len(filename) : filename[i] = "/"
    THEN Basename(Tail(filename))
    ELSE filename

\* filename.replace('..', '_')
RECURSIVE ReplaceDotDot(_)
ReplaceDotDot(filename) ==
    IF Len(filename) < 2 THEN filename
    ELSE IF filename[1] = "." /\ filename[2] = "."
    THEN <<"_">> \o ReplaceDotDot(SubSeq(filename, 3, Len(filename)))
    ELSE <<filename[1]>> \o ReplaceDotDot(Tail(filename))

\* the single characters of dangerous_chars
DangerousChars == {"/", "\\", ":", "*", "?", "\"", "<", ">", "|"}

Digits == <<"1", "2", "3", "4", "5", "6", "7", "8", "9">>

\* f"file_{os.urandom(8).hex()}": a name no other file has, here made of the
\* request and the position of the file in it
RandomName(r, k) == <<"file_", Digits[r], Digits[k]>>

\* _sanitize_filename for the k-th file of request r (the names of the model
\* are shorter than 255 characters)
sanitize_filename(filename, r, k) ==
    LET replaced == ReplaceDotDot(Basename(filename))
        safe == [i \in 1..Len(replaced) |->
                    IF replaced[i] \in DangerousChars THEN "_"
                    ELSE replaced[i]]
    IN IF safe = <<>> THEN RandomName(r, k) ELSE safe
\* the texts a loader extracts from a file or a page
FileTexts == {<<"a">>, <<"b">>}

Text(t) == [kind |-> "text", text |-> t]
\* a file its loader cannot load, a page WebBaseLoader cannot load
Unreadable == [kind |-> "unreadable", text |-> <<>>]
\* a URL validate_url rejects
Invalid == [kind |-> "invalid", text |-> <<>>]

\* an UploadFile: filename "" is a form part without a file name
UploadItems ==
    [name : FileNames \cup {NoFileName},
     body : {Text(t) : t \in FileTexts} \cup {Unreadable}]

LinkItems ==
    [name : Urls,
     body : {Text(t) : t \in FileTexts} \cup {Unreadable, Invalid}]

\* the uuid form field: absent, or a value of the caller
UuidParams == {"", "u"}

\* the requests with at most n files or URLs; given says whether the files
\* list or the links text is non-empty (a links text may hold no URL)
RequestInputs(n) ==
    {[endpoint |-> "upload", given |-> items # <<>>, items |-> items,
      uuid |-> u] :
        items \in UNION {[1..k -> UploadItems] : k \in 0..n},
        u \in UuidParams}
    \cup
    {[endpoint |-> "links", given |-> TRUE, items |-> items, uuid |-> u] :
        items \in UNION {[1..k -> LinkItems] : k \in 0..n},
        u \in UuidParams}
    \cup
    {[endpoint |-> "links", given |-> FALSE, items |-> <<>>, uuid |-> u] :
        u \in UuidParams}

\* operation_uuid = uuid_param or str(uuid.uuid4())
operation_uuid(r) ==
    IF request[r].uuid # "" THEN request[r].uuid
    ELSE IF r = 1 THEN "uuid4-1" ELSE "uuid4-2"

\* os.path.join(base_temp_dir, f"upload_{uuid}") and f"web_content_{uuid}"
temp_dir(r) ==
    IF request[r].endpoint = "upload"
    THEN <<"upload", operation_uuid(r)>>
    ELSE <<"web_content", operation_uuid(r)>>

\* the directory at key in st, which must exist
DirOf(st, key) == st[key]

\* os.makedirs(temp_dir, exist_ok=True)
MakeDirs(st, key) ==
    IF key \in DOMAIN st THEN st ELSE (key :> EmptyDir) @@ st

\* open(file_path, 'w') and write: the file is created or replaced
WriteFile(st, key, name, file) ==
    (key :> ((name :> file) @@ DirOf(st, key))) @@ st

\* shutil.rmtree(temp_dir)
RemoveTree(st, key) ==
    [k \in DOMAIN st \ {key} |-> st[k]]

\* the orders in which os.listdir can return the names of a directory
ListDir(dir) ==
    {order \in [1..Cardinality(DOMAIN dir) -> DOMAIN dir] :
        \A i, j \in DOMAIN order : i # j => order[i] # order[j]}

\* the for loop over os.listdir(temp_dir): the Documents of the files that
\* load, in the order of the listing
LoadDocuments(dir, order) ==
    LET files == [i \in DOMAIN order |-> dir[order[i]]]
        loaded == SelectSeq(files, LAMBDA f : f.body.kind = "text")
    IN [i \in DOMAIN loaded |->
           [text |-> loaded[i].body.text, owner |-> loaded[i].owner]]

\* the header save_web_content_to_temp writes before the page content
\* ("Source URL: ...", "Content Length: ...", a rule): one character here
Header == <<"h">>

\* the pairs (r, owner) added when r replaces or removes the files in lost
Clobbers(r, lost) ==
    {[by |-> r, of |-> f.owner] : f \in {g \in lost : g.owner # r}}

\* the files of a directory
FilesOf(dir) == {dir[n] : n \in DOMAIN dir}

\* the request ends with HTTPException(status_code)
Rejected(r, status_code, value_error) ==
    /\ http' = [http EXCEPT ![r] = status_code]
    /\ validation' = [validation EXCEPT ![r] = value_error]
    /\ rpc' = [rpc EXCEPT ![r] = "done"]

\* the variables of the run of simplify_content_service
run_vars == <<content, pc, chunks, idx, responses, previous_simplified,
              result, error, calls, outcomes, in_flight, invoked, client,
              retries, cancelled>>

\* simplify_content: no files and no links raises ValueError, which the
\* endpoint turns into HTTP 400
RejectEmpty(r) ==
    /\ rpc[r] = "start"
    /\ ~request[r].given
    /\ Rejected(r, 400, TRUE)
    /\ UNCHANGED <<run_vars, splitter, request, saved, storage, documents,
                   clobbered>>

\* save_uploaded_files up to its for loop: the directory is created
BeginUpload(r) ==
    /\ rpc[r] = "start"
    /\ request[r].given
    /\ request[r].endpoint = "upload"
    /\ storage' = MakeDirs(storage, temp_dir(r))
    /\ saved' = [saved EXCEPT ![r] = 0]
    /\ rpc' = [rpc EXCEPT ![r] = "saving"]
    /\ UNCHANGED <<run_vars, splitter, request, documents, http, validation,
                   clobbered>>

\* one round of the for loop of save_uploaded_files: a part without a file
\* name is skipped, any other file is written under its name
SaveFile(r) ==
    /\ rpc[r] = "saving"
    /\ saved[r] < Len(request[r].items)
    /\ temp_dir(r) \in DOMAIN storage
    /\ LET file == request[r].items[saved[r] + 1]
           dir == DirOf(storage, temp_dir(r))
           safe_filename == sanitize_filename(file.name, r, saved[r] + 1)
       IN IF file.name = NoFileName
          THEN UNCHANGED <<storage, clobbered>>
          ELSE /\ storage' = WriteFile(storage, temp_dir(r), safe_filename,
                                       [body |-> file.body, owner |-> r])
               /\ clobbered' = clobbered \cup
                     Clobbers(r, IF safe_filename \in DOMAIN dir
                                 THEN {dir[safe_filename]} ELSE {})
    /\ saved' = [saved EXCEPT ![r] = saved[r] + 1]
    /\ UNCHANGED <<run_vars, splitter, request, rpc, documents, http,
                   validation>>

\* file_info of save_uploaded_files: an entry for every file with a filename
\* that the for loop has handled
file_info(r) ==
    LET ks == SelectSeq([k \in 1..saved[r] |-> k], LAMBDA k :
                  request[r].items[k].name # NoFileName)
    IN [i \in DOMAIN ks |->
           [original_name |-> request[r].items[ks[i]].name,
            saved_name |-> sanitize_filename(request[r].items[ks[i]].name,
                                             r, ks[i])]]

\* a variant of SaveFileFails that leaves the directory as it is
SaveFileFailsKeepsDir(r) ==
    /\ rpc[r] = "saving"
    /\ saved[r] < Len(request[r].items)
    /\ request[r].items[saved[r] + 1].name # NoFileName
    /\ Rejected(r, 500, FALSE)
    /\ UNCHANGED <<run_vars, splitter, request, saved, storage, documents,
                   clobbered>>

\* writing a file fails (or the directory is gone): cleanup_temp_dir removes
\* the directory, IOError, HTTP 500
SaveFileFails(r) ==
    /\ rpc[r] = "saving"
    /\ saved[r] < Len(request[r].items)
    /\ request[r].items[saved[r] + 1].name # NoFileName
    /\ storage' = RemoveTree(storage, temp_dir(r))
    /\ clobbered' = clobbered \cup
          Clobbers(r, IF temp_dir(r) \in DOMAIN storage
                      THEN FilesOf(DirOf(storage, temp_dir(r))) ELSE {})
    /\ Rejected(r, 500, FALSE)
    /\ UNCHANGED <<run_vars, splitter, request, saved, documents>>

\* a variant of ReadFilesRaises whose ValueError reaches the endpoint
ReadFilesRaisesValueError(r) ==
    /\ rpc[r] = "saving"
    /\ saved[r] = Len(request[r].items)
    /\ IF temp_dir(r) \in DOMAIN storage
       THEN DOMAIN DirOf(storage, temp_dir(r)) = {}
       ELSE TRUE
    /\ Rejected(r, 400, TRUE)
    /\ UNCHANGED <<run_vars, splitter, request, saved, storage, documents,
                   clobbered>>

\* file_handler.read_files_from_temp_directory raises ValueError for a
\* missing or empty directory; simplify_content wraps it in IOError: HTTP 500
ReadFilesRaises(r) ==
    /\ rpc[r] = "saving"
    /\ saved[r] = Len(request[r].items)
    /\ IF temp_dir(r) \in DOMAIN storage
       THEN DOMAIN DirOf(storage, temp_dir(r)) = {}
       ELSE TRUE
    /\ Rejected(r, 500, TRUE)
    /\ UNCHANGED <<run_vars, splitter, request, saved, storage, documents,
                   clobbered>>

\* a variant of ReadFiles that gives up at a file that fails to load
ReadFilesAborts(r) ==
    /\ rpc[r] = "saving"
    /\ saved[r] = Len(request[r].items)
    /\ temp_dir(r) \in DOMAIN storage
    /\ DOMAIN DirOf(storage, temp_dir(r)) # {}
    /\ IF \E f \in FilesOf(DirOf(storage, temp_dir(r))) :
              f.body.kind # "text"
       THEN /\ Rejected(r, 500, FALSE)
            /\ UNCHANGED documents
       ELSE /\ \E order \in ListDir(DirOf(storage, temp_dir(r))) :
                  documents' = [documents EXCEPT ![r] =
                      LoadDocuments(DirOf(storage, temp_dir(r)), order)]
            /\ rpc' = [rpc EXCEPT ![r] = "loaded"]
            /\ UNCHANGED <<http, validation>>
    /\ UNCHANGED <<run_vars, splitter, request, saved, storage, clobbered>>

\* file_handler.read_files_from_temp_directory: every file of the directory
\* is loaded in the order of os.listdir, a file that fails to load is skipped
ReadFiles(r) ==
    /\ rpc[r] = "saving"
    /\ saved[r] = Len(request[r].items)
    /\ temp_dir(r) \in DOMAIN storage
    /\ DOMAIN DirOf(storage, temp_dir(r)) # {}
    /\ \E order \in ListDir(DirOf(storage, temp_dir(r))) :
          documents' = [documents EXCEPT ![r] =
              LoadDocuments(DirOf(storage, temp_dir(r)), order)]
    /\ rpc' = [rpc EXCEPT ![r] = "loaded"]
    /\ UNCHANGED <<run_vars, splitter, request, saved, storage, http,
                   validation, clobbered>>

\* the URLs of the request that validate_url accepts
ValidUrls(r) ==
    SelectSeq(request[r].items, LAMBDA u : u.body.kind # "invalid")

\* the pages load_web_content loaded, in the order of the URLs
LoadedPages(r) ==
    SelectSeq(ValidUrls(r), LAMBDA u : u.body.kind = "text")

\* the for loop of save_web_content_to_temp: page i is written to the file
\* named after its URL and i, the header before the page content
RECURSIVE WritePages(_, _, _, _, _)
WritePages(st, key, pages, i, r) ==
    IF i > Len(pages) THEN st
    ELSE WritePages(
             WriteFile(st, key, <<pages[i].name, i - 1>>,
                       [body |-> Text(Header \o pages[i].body.text),
                        owner |-> r]),
             key, pages, i + 1, r)

\* load_web_content raises ValueError when no URL is found or none is valid;
\* simplify_content wraps it in IOError: HTTP 500
ProcessLinksRaises(r) ==
    /\ rpc[r] = "start"
    /\ request[r].given
    /\ request[r].endpoint = "links"
    /\ ValidUrls(r) = <<>>
    /\ Rejected(r, 500, TRUE)
    /\ UNCHANGED <<run_vars, splitter, request, saved, storage, documents,
                   clobbered>>

\* writing a page fails: save_web_content_to_temp removes the directory and
\* raises, simplify_content raises IOError, HTTP 500
ProcessLinksSaveFails(r) ==
    /\ rpc[r] = "start"
    /\ request[r].given
    /\ request[r].endpoint = "links"
    /\ ValidUrls(r) # <<>>
    /\ LoadedPages(r) # <<>>
    /\ storage' = RemoveTree(storage, temp_dir(r))
    /\ clobbered' = clobbered \cup
          Clobbers(r, IF temp_dir(r) \in DOMAIN storage
                      THEN FilesOf(DirOf(storage, temp_dir(r))) ELSE {})
    /\ Rejected(r, 500, FALSE)
    /\ UNCHANGED <<run_vars, splitter, request, saved, documents>>

\* save_web_content_to_temp and link_handler.read_files_from_temp_directory,
\* which run without an await between them
ProcessLinks(r) ==
    /\ rpc[r] = "start"
    /\ request[r].given
    /\ request[r].endpoint = "links"
    /\ ValidUrls(r) # <<>>
    /\ LET key == temp_dir(r)
           made == MakeDirs(storage, key)
           pages == LoadedPages(r)
           names == {<<pages[i].name, i - 1>> : i \in 1..Len(pages)}
           before == DirOf(made, key)
           written == WritePages(made, key, pages, 1, r)
       IN /\ storage' = written
          /\ clobbered' = clobbered \cup
                Clobbers(r, {before[n] : n \in names \cap DOMAIN before})
          /\ \E order \in ListDir(DirOf(written, key)) :
                documents' = [documents EXCEPT ![r] =
                    LoadDocuments(DirOf(written, key), order)]
    /\ rpc' = [rpc EXCEPT ![r] = "loaded"]
    /\ UNCHANGED <<run_vars, splitter, request, saved, http, validation>>

\* the steps of the loader for one request
Loader(r) ==
    \/ RejectEmpty(r)
    \/ BeginUpload(r)
    \/ SaveFile(r)
    \/ SaveFileFails(r)
    \/ ReadFilesRaises(r)
    \/ ReadFiles(r)
    \/ ProcessLinksRaises(r)
    \/ ProcessLinksSaveFails(r)
    \/ ProcessLinks(r)

\* the endpoint passes the Documents of request 1 to simplify_content_service
CallService ==
    /\ rpc[1] = "loaded"
    /\ pc = "idle"
    /\ content' = [i \in DOMAIN documents[1] |-> documents[1][i].text]
    /\ pc' = "service"
    /\ rpc' = [rpc EXCEPT ![1] = "pipeline"]
    /\ UNCHANGED <<chunks, idx, responses, previous_simplified, result,
                   error, calls, outcomes, in_flight, invoked, client,
                   retries, cancelled>>
    /\ UNCHANGED <<splitter, request, saved, storage, documents, http,
                   validation, clobbered>>

\* the endpoint returns the response of simplify_content_service
RespondOk ==
    /\ rpc[1] = "pipeline"
    /\ pc = "returned"
    /\ http' = [http EXCEPT ![1] = 200]
    /\ rpc' = [rpc EXCEPT ![1] = "done"]
    /\ UNCHANGED <<run_vars, splitter, request, saved, storage, documents,
                   validation, clobbered>>

\* the RuntimeError of simplify_content_service becomes HTTP 500
RespondError ==
    /\ rpc[1] = "pipeline"
    /\ pc = "raised"
    /\ Rejected(1, 500, FALSE)
    /\ UNCHANGED <<run_vars, splitter, request, saved, storage, documents,
                   clobbered>>

\* the run of simplify_content_service has not been called yet
RunIdle ==
    /\ content = <<>>
    /\ pc = "idle"
    /\ chunks = <<>>
    /\ idx = 0
    /\ responses = <<>>
    /\ previous_simplified = Str(<<>>)
    /\ result = NoResult
    /\ error = NoError
    /\ calls = <<>>
    /\ outcomes = <<>>
    /\ in_flight = {}
    /\ invoked = <<>>
    /\ client = "none"
    /\ retries = 0
    /\ cancelled = FALSE
    /\ splitter = ConfiguredSplitter

\* the requests reqs have arrived, base_temp_dir holds no directory
Arrived(reqs) ==
    /\ rpc = [r \in Requests |-> IF r \in reqs THEN "start" ELSE "idle"]
    /\ saved = [r \in Requests |-> 0]
    /\ storage = EmptyDir
    /\ documents = [r \in Requests |-> <<>>]
    /\ http = [r \in Requests |-> 0]
    /\ validation = [r \in Requests |-> FALSE]
    /\ clobbered = {}

\* one request from its arrival to its response
InitRequest ==
    /\ RunIdle
    /\ \E req \in RequestInputs(MaxFiles) :
          request = [r \in Requests |-> IF r = 1 THEN req ELSE NoRequest]
    /\ Arrived({1})

NextRequest ==
    \/ \E r \in Requests : Loader(r)
    \/ CallService
    \/ Next
    \/ RespondOk
    \/ RespondError

SpecRequest == InitRequest /\ [][NextRequest]_vars

\* the loader of one request on its own
NextLoader == \E r \in Requests : Loader(r)

SpecLoader == InitRequest /\ [][NextLoader]_vars

\* two requests in the loader at the same time
InitStorage ==
    /\ RunIdle
    /\ request \in [Requests -> RequestInputs(MaxSharedFiles)]
    /\ Arrived(Requests)

NextStorage == \E r \in Requests : Loader(r)

SpecStorage == InitStorage /\ [][NextStorage]_vars

(***************************************************************************)
(* Vocabulary of the properties.                                           *)
(***************************************************************************)
\* simplify_content has left its loop and the service has ended
RunEnded == client = "built" /\ pc \in {"returned", "raised"}

\* the elements of a finite set of numbers in ascending order
RECURSIVE Ascending(_)
Ascending(S) ==
    IF S = {} THEN <<>>
    ELSE LET m == CHOOSE x \in S : \A y \in S : x <= y
         IN <<m>> \o Ascending(S \ {m})

\* the ordinals of the chunks whose call of lcel_for_simplification returned
SucceededOrdinals ==
    {outcomes[j].ordinal : j \in {i \in 1..Len(outcomes) : outcomes[i].ok}}

\* the ordinals of the chunks whose call of lcel_for_simplification raised
FailedOrdinals ==
    {outcomes[j].ordinal : j \in {i \in 1..Len(outcomes) : ~outcomes[i].ok}}

\* what the call for the chunk at ordinal k returned
OutputOf(k) ==
    outcomes[CHOOSE j \in 1..Len(outcomes) : outcomes[j].ordinal = k].output

\* the outputs of the succeeded chunks in ascending chunk order
SucceededOutputs ==
    LET ks == Ascending(SucceededOrdinals)
    IN [i \in 1..Len(ks) |-> OutputOf(ks[i])]

\* the output of the latest succeeded chunk before ordinal k, "" when none
LatestOutputBefore(k) ==
    LET earlier == {o \in SucceededOrdinals : o < k}
    IN IF earlier = {} THEN Str(<<>>)
       ELSE OutputOf(CHOOSE o \in earlier : \A q \in earlier : q <= o)

Last(seq) == seq[Len(seq)]

(***************************************************************************)
(* Properties.                                                             *)
(***************************************************************************)

\* C1: whatever chunks succeed or fail, the run returns the newline-joined
\* outputs of exactly the succeeded chunks in ascending chunk order.
C1_RunReturnsJoinedOutputs ==
    RunEnded =>
        /\ pc = "returned"
        /\ result.simplified_content = JoinNL(Texts(SucceededOutputs))

\* C2: the previous_simplified passed to the Simplification Step for a chunk
\* is exactly the output of the latest earlier chunk that succeeded, and the
\* empty string when no earlier chunk succeeded.
C2_PreviousIsLatestSuccess ==
    \A i \in 1..Len(calls) :
        calls[i].previous_simplified = LatestOutputBefore(calls[i].ordinal)

\* a later chunk was dispatched after an earlier success and a failure in
\* between, with the output of the success as previous_simplified
C2_Witness ==
    \E i \in 1..Len(calls) :
        /\ calls[i].ordinal = 3
        /\ calls[i].previous_simplified = Str(<<"x">>)
        /\ 1 \in SucceededOrdinals
        /\ 2 \in FailedOrdinals

\* C3: a step in which a chunk's Simplification Step fails leaves responses
\* (completed_outputs) and previous_simplified as they were when the chunk
\* was dispatched.
C3_FailureLeavesState ==
    [][(Len(outcomes') = Len(outcomes) + 1 /\ ~Last(outcomes').ok) =>
          /\ responses' = responses
          /\ previous_simplified' = previous_simplified
          /\ previous_simplified' = Last(calls').previous_simplified]_vars

\* a chunk has failed after an earlier chunk had produced an output
C3_Witness ==
    /\ Len(outcomes) >= 2
    /\ ~Last(outcomes).ok
    /\ Len(responses) = 1
    /\ previous_simplified = Str(<<"y">>)

\* C4: a per-chunk model failure never aborts the run: every chunk is
\* dispatched to the Simplification Step and the run ends by returning a
\* string, never by raising.
C4_FailureNeverAborts ==
    RunEnded =>
        /\ pc = "returned"
        /\ {calls[i].ordinal : i \in 1..Len(calls)} = 1..Len(chunks)

\* C5: when every chunk of a non-empty chunk sequence fails, the run returns
\* the empty string and raises nothing.
C5_AllFailReturnsEmpty ==
    (RunEnded /\ chunks # <<>> /\ SucceededOrdinals = {}) =>
        /\ pc = "returned"
        /\ result.simplified_content = <<>>
        /\ error = NoError

\* a run over several chunks, all of which failed, has ended
C5_Witness ==
    /\ RunEnded
    /\ Len(chunks) >= 2
    /\ FailedOrdinals = 1..Len(chunks)

\* C6: a run whose input yields zero chunks fails, before any model client is
\* invoked.
C6_ZeroChunksFail ==
    (RunEnded /\ chunks = <<>>) => (pc = "raised" /\ invoked = <<>>)

\* C7: at most one model invocation is in flight, and a chunk is dispatched
\* only after every earlier chunk's call has returned or failed.
C7_StrictlySequential ==
    /\ Cardinality(in_flight) <= 1
    /\ Len(calls) - Len(outcomes) \in {0, 1}
    /\ \A i \in 1..Len(calls) : calls[i].ordinal = i
    /\ \A j \in 1..Len(outcomes) : outcomes[j].ordinal = j
    /\ pc = "await" <=> in_flight # {}
    /\ pc = "await" => /\ in_flight = {idx}
                       /\ Len(outcomes) = idx - 1

\* the call for a second chunk is in flight
C7_Witness ==
    /\ pc = "await"
    /\ in_flight = {2}

\* C8: completed_outputs (responses) is never longer than the number of
\* chunks processed, it holds one entry per succeeded chunk, and its entries
\* follow chunk order.
C8_OutputsFollowChunks ==
    /\ Len(responses) <= Len(outcomes)
    /\ Len(responses) = Cardinality(SucceededOrdinals)
    /\ responses = SucceededOutputs

\* two different outputs are held while another chunk has been skipped
C8_Witness ==
    /\ Len(responses) = 2
    /\ Len(outcomes) = 3
    /\ responses[1] # responses[2]

\* C9: a response that is empty or malformed makes the Simplification Step
\* fail, so it is neither appended to responses nor kept as
\* previous_simplified.
C9_EmptyResponseIsFailure ==
    /\ \A i \in 1..Len(responses) :
          responses[i].type = "str" /\ responses[i].text # <<>>
    /\ (outcomes # <<>> /\ SucceededOrdinals # {}) =>
          (previous_simplified.type = "str" /\ previous_simplified.text # <<>>)

\* C10: when the model client cannot be constructed, the run has raised a
\* setup error, nothing was split or dispatched and the model was never
\* invoked.
C10_SetupFailureAborts ==
    client = "failed" =>
        /\ pc = "raised"
        /\ error = "RuntimeError"
        /\ result = NoResult
        /\ chunks = <<>>
        /\ calls = <<>>
        /\ invoked = <<>>
        /\ in_flight = {}

\* construction failed for a request whose documents hold text to split
C10_Witness ==
    /\ client = "failed"
    /\ split_documents(content) # <<>>

\* the calls of lcel_for_simplification whose prompt was built, in order:
\* the i-th of them led to the i-th request the model client received
BuiltCalls ==
    SelectSeq(calls, LAMBDA c :
        /\ c.previous_simplified.type = "str"
        /\ Strip(c.current_chunk) # <<>>)

C13_NoRetryInPipeline ==
    /\ \A i, j \in 1..Len(calls) :
          i # j => calls[i].ordinal # calls[j].ordinal
    /\ Len(invoked) = Len(BuiltCalls)
    /\ Len(invoked) <= Len(calls)
    /\ retries \in 0..max_retries
    /\ retries > 0 => pc = "await"

\* the client has used all its retries for a chunk that follows a failed one
C13_Witness ==
    /\ pc = "await"
    /\ retries = max_retries
    /\ idx - 1 \in FailedOrdinals

\* C14: once the caller's request is cancelled during a model call, that call
\* is no longer in flight, no later chunk is dispatched and the run returns
\* no result.
C14_CancellationEndsRun ==
    cancelled =>
        /\ pc = "cancelled"
        /\ in_flight = {}
        /\ result = NoResult
        /\ Len(calls) = idx
        /\ Last(calls).ordinal = idx
        /\ Len(outcomes) = idx - 1

\* a run was cancelled with an output already completed and chunks left
C14_Witness ==
    /\ cancelled
    /\ responses # <<>>
    /\ idx < Len(chunks)

\* the smaller of two numbers
Min(a, b) == IF a <= b THEN a ELSE b

\* s without its first k characters
Drop(s, k) == SubSeq(s, k + 1, Len(s))

\* the last k characters of s
Suffix(s, k) == SubSeq(s, Len(s) - k + 1, Len(s))

\* how many leading characters of cur may be taken for the overlap with prev:
\* at most chunk_overlap of them, equal to the end of prev
OverlapCuts(prev, cur) ==
    {k \in 0..Min(chunk_overlap, Min(Len(prev), Len(cur))) :
        SubSeq(cur, 1, k) = Suffix(prev, k)}

\* the texts obtained from the chunks cs[i..] by removing from each chunk an
\* overlap with its predecessor and concatenating
RECURSIVE Reconstructions(_, _)
Reconstructions(cs, i) ==
    IF i > Len(cs) THEN {<<>>}
    ELSE LET cuts == IF i = 1 THEN {0} ELSE OverlapCuts(cs[i - 1], cs[i])
         IN {Drop(cs[i], k) \o r :
                k \in cuts, r \in Reconstructions(cs, i + 1)}

\* C18: for every valid splitter (chunk_overlap < chunk_size), no chunk the
\* split produces is longer than chunk_size characters.
C18_ChunksWithinSize ==
    pc = "loop" =>
        \A i \in 1..Len(chunks) : Len(chunks[i]) <= chunk_size

\* a text longer than chunk_size was split with a positive overlap into
\* several chunks, one of them of exactly chunk_size characters
C18_Witness ==
    /\ pc = "loop"
    /\ chunk_overlap > 0
    /\ Len(Concat(content)) > chunk_size
    /\ Len(chunks) >= 2
    /\ \E i \in 1..Len(chunks) : Len(chunks[i]) = chunk_size

\* C19: for every non-empty Document list, the chunks of the split, each
\* without the overlap it shares with its predecessor, concatenate to the
\* concatenated text of the Documents exactly.
C19_ChunksReconstructText ==
    (pc = "loop" /\ content # <<>>) =>
        Concat(content) \in Reconstructions(chunks, 1)

\* C20: every chunk after the first begins with the last chunk_overlap
\* characters of the chunk before it, also across two Documents.
C20_ChunksBeginWithOverlap ==
    pc = "loop" =>
        \A i \in 2..Len(chunks) :
            LET k == Min(chunk_overlap, Len(chunks[i - 1]))
            IN /\ Len(chunks[i]) >= k
               /\ SubSeq(chunks[i], 1, k) = Suffix(chunks[i - 1], k)

\* the inputs of request r yield no segment: no files and no links, or no
\* file or page with a text
NoSegments(r) ==
    \/ ~request[r].given
    \/ \A i \in 1..Len(request[r].items) :
          request[r].items[i].body.kind # "text"

\* the texts of the inputs of request r in the order they were supplied, as
\* the loader stores them
SuppliedTexts(r) ==
    IF request[r].endpoint = "links"
    THEN LET pages == SelectSeq(request[r].items, LAMBDA u :
                          u.body.kind = "text")
         IN [i \in DOMAIN pages |-> Header \o pages[i].body.text]
    ELSE LET named == SelectSeq(request[r].items, LAMBDA f :
                          f.body.kind = "text" /\ f.name # NoFileName)
         IN [i \in DOMAIN named |-> named[i].body.text]

\* C11: a request without any input segment is rejected with a validation
\* error (HTTP 400) and its pipeline never starts: no model client is
\* constructed and no request is sent to the model.
C11_NoSegmentsRejected ==
    (rpc[1] # "idle" /\ NoSegments(1)) =>
        /\ rpc[1] # "pipeline"
        /\ rpc[1] = "done" => http[1] = 400
        /\ client = "none"
        /\ invoked = <<>>

\* C15: the temporary storage is keyed by the run, so that no request loads
\* a Document stored by another request and no request replaces or removes
\* a file another request stored.
C15_StorageKeyedByRun ==
    /\ \A r \in Requests : \A i \in 1..Len(documents[r]) :
          documents[r][i].owner = r
    /\ clobbered = {}

\* C16: a request ends in exactly one of a success carrying the simplified
\* string, HTTP 400 for a validation error, or HTTP 500 for any other
\* failure, and a failure in the processing of a chunk never reaches the
\* caller as an error.
C16_ResponseTrichotomy ==
    rpc[1] = "done" =>
        /\ http[1] \in {200, 400, 500}
        /\ http[1] = 200 <=> result # NoResult
        /\ http[1] = 400 <=> validation[1]
        /\ http[1] # 200 => calls = <<>>

\* C17: the Documents reach the splitter in the order the inputs were
\* supplied, the chunks of an earlier Document precede those of a later one,
\* and the chunks are dispatched in that order.
C17_OrderPreserved ==
    rpc[1] \in {"pipeline", "done"} /\ http[1] \in {0, 200} =>
        /\ content = SuppliedTexts(1)
        /\ pc \in {"loop", "await", "returned"} =>
              chunks = split_documents(SuppliedTexts(1))
        /\ \A i \in 1..Len(calls) :
              /\ calls[i].ordinal = i
              /\ calls[i].current_chunk = chunks[i]

\* the Documents of content hold no whitespace
NoWhitespace(docs) ==
    \A i \in 1..Len(docs) : \A j \in 1..Len(docs[i]) :
        docs[i][j] \notin Whitespace

\* two Documents in the proportions of 6000 and 2000 characters under
\* chunk_size 5000 and chunk_overlap 500: the first is longer than a chunk,
\* the second shorter, and as one stream they fill two chunks
TwoSegmentsOfTwoChunks ==
    /\ Len(content) = 2
    /\ chunk_overlap > 0
    /\ Len(content[1]) > chunk_size
    /\ Len(content[2]) < chunk_size
    /\ Len(content[1]) + Len(content[2]) <= 2 * chunk_size - chunk_overlap
    /\ NoWhitespace(content)

\* C21: the Documents are split as one concatenated stream: two Documents
\* that fill two chunks as one stream give exactly two chunks, the second
\* beginning with the last chunk_overlap characters of the first.
C21_TwoSegmentsTwoChunks ==
    (pc = "loop" /\ TwoSegmentsOfTwoChunks) =>
        /\ Len(chunks) = 2
        /\ SubSeq(chunks[2], 1, chunk_overlap) = Suffix(chunks[1], chunk_overlap)

\* C22: for an empty Document list the split returns an empty chunk list
\* and raises no error.
C22_EmptyContentNoChunks ==
    (client = "built" /\ content = <<>> /\ pc \notin {"service", "split"}) =>
        /\ chunks = <<>>
        /\ pc # "raised"
        /\ error = NoError

\* an empty Document list was split
C22_Witness ==
    /\ content = <<>>
    /\ pc = "loop"
    /\ chunks = <<>>

SimplifyResponse(response) ==
    [simplified_content |-> response.simplified_content]

\* the body of the response to request 1
ResponseBody == SimplifyResponse(result)

\* C24: a successful run returns to the caller the final simplified string
\* together with the run identifier of that run.
C24_ResponseCarriesRunId ==
    (rpc[1] = "done" /\ http[1] = 200) =>
        /\ "simplified_content" \in DOMAIN ResponseBody
        /\ "operation_id" \in DOMAIN ResponseBody
        /\ ResponseBody.operation_id = operation_uuid(1)

\* the text of a chunk is empty or whitespace only
Blank(text) == Strip(text) = <<>>

\* C27: a chunk whose text is empty or whitespace only is never sent to the
\* model: its call fails without a request, nothing is appended to
\* responses, previous_simplified stays as it was, and the loop goes on
\* with the next chunk.
C27_BlankChunkSkipped ==
    /\ \A j \in 1..Len(invoked) : ~Blank(invoked[j].current_chunk)
    /\ Len(invoked) = Len(BuiltCalls)
    /\ Len(responses) = Cardinality(SucceededOrdinals)
    /\ \A i \in 1..Len(calls) :
          Blank(calls[i].current_chunk) =>
              /\ i <= Len(outcomes)
              /\ outcomes[i].ordinal = calls[i].ordinal
              /\ ~outcomes[i].ok
              /\ idx > calls[i].ordinal
              /\ pc = "raised" => ~AllStr(responses)
              /\ i < Len(calls) =>
                    /\ calls[i + 1].ordinal = calls[i].ordinal + 1
                    /\ calls[i + 1].previous_simplified =
                          calls[i].previous_simplified

\* a blank chunk was skipped after a succeeded chunk, and the chunk after
\* it was sent to the model with the output of the succeeded chunk
C27_Witness ==
    \E i \in 2..(Len(calls) - 1) :
        /\ Blank(calls[i].current_chunk)
        /\ calls[i].previous_simplified = Str(<<"x">>)
        /\ calls[i + 1].previous_simplified = Str(<<"x">>)
        /\ Len(invoked) = 2

\* the files of request r's directory that load
ReadableFiles(r) ==
    LET dir == DirOf(storage, temp_dir(r))
    IN {n \in DOMAIN dir : dir[n].body.kind = "text"}

\* C25: a file whose extraction fails is skipped and does not abort the
\* load: exactly the files and pages that load give a Document each, and the
\* load fails only for a missing or empty directory.
C25_FailedExtractionSkipped ==
    /\ rpc[1] = "loaded" =>
          LET dir == DirOf(storage, temp_dir(1))
              docs == documents[1]
          IN /\ Len(docs) = Cardinality(ReadableFiles(1))
             /\ \A i \in 1..Len(docs) :
                   Cardinality({j \in 1..Len(docs) : docs[j].text = docs[i].text})
                   = Cardinality({n \in ReadableFiles(1) :
                                     dir[n].body.text = docs[i].text})
             /\ request[1].endpoint = "links" =>
                   Len(docs) = Len(LoadedPages(1))
    /\ (rpc[1] = "done" /\ pc = "idle" /\ request[1].endpoint = "upload"
        /\ request[1].given /\ saved[1] = Len(request[1].items)) =>
          /\ validation[1]
          /\ temp_dir(1) \in DOMAIN storage =>
                DOMAIN DirOf(storage, temp_dir(1)) = {}

\* a directory with a file that fails to load and a file that loads was read
C25_Witness ==
    /\ rpc[1] = "loaded"
    /\ request[1].endpoint = "upload"
    /\ Len(documents[1]) = 1
    /\ \E n \in DOMAIN DirOf(storage, temp_dir(1)) :
          DirOf(storage, temp_dir(1))[n].body.kind = "unreadable"

\* the step in which saving a file or a page of request r fails
SaveFailureStep(r) ==
    /\ rpc[r] \in {"start", "saving"}
    /\ rpc'[r] = "done"
    /\ http'[r] = 500
    /\ ~validation'[r]

OwnTexts(r) == {SuppliedTexts(r)[i] : i \in 1..Len(SuppliedTexts(r))}

\* C28: the Documents loaded for a request are those extracted from its own
\* inputs, whatever other requests stored before, also under the same
\* caller-supplied uuid.
C28_OnlyOwnDocuments ==
    \A r \in Requests :
        rpc[r] = "loaded" =>
            \A i \in 1..Len(documents[r]) :
                /\ documents[r][i].owner = r
                /\ documents[r][i].text \in OwnTexts(r)

\* C29: after save_uploaded_files the directory of the run holds as many
\* files as file_info has entries, one for every file with a filename.
C29_OneFilePerUpload ==
    (request[1].endpoint = "upload" /\ rpc[1] = "saving"
     /\ saved[1] = Len(request[1].items)) =>
        Cardinality(DOMAIN DirOf(storage, temp_dir(1))) = Len(file_info(1))

=============================================================================
